---- MODULE Spec2Model ----
(***************************************************************************)
(* Position lifecycle of signal-bot-xl.                                    *)
(*                                                                         *)
(* Two position stores exist in the repository and both are modelled:      *)
(*   - trades.py : the list open_trades, written by open_trade and         *)
(*                 update_trades (variables open_trades, t_prices);        *)
(*   - main.py   : the dict active_trades and the list closed_trades,      *)
(*                 written by open_trade, check_trades and the loop        *)
(*                 run_bot.                                                *)
(*                                                                         *)
(* Prices are integers in units of 1e-8, so that 0.0001 is PIP = 10000     *)
(* units and every product the code forms (pips * pip_unit, atr * 1.25)    *)
(* is an exact integer.  Binary floating point rounding is not modelled.   *)
(* An absent value (Python None) is the empty sequence, a present value x  *)
(* the sequence <<x>>.  A dict is a function whose DOMAIN is its key set.  *)
(***************************************************************************)
EXTENDS Integers, Sequences, FiniteSets, TLC

VARIABLES
    program,        \* which script this process runs: "trades", "main",
                    \* "backtest" or "signals"
    MODE,           \* config.MODE, "TEST" or "LIVE"
    open_trades,    \* trades.open_trades, a list of trade dicts
    t_prices,       \* argument of the last update_trades call (history)
    TEST_MODE,      \* main.TEST_MODE, set by the startup prompt
    active_trades,  \* main.active_trades, dict pair -> trade
    closed_trades,  \* main.closed_trades, list of closed trades
    m_op,           \* the last main.py call and its arguments (history)
    pc,             \* run_bot: where the loop stands
    idx,            \* run_bot: index into PAIRS of the pair evaluated next
    snapshot,       \* run_bot: pairs of list(active_trades.values()) not yet
                    \*          visited by the update loop
    cycle_closed,   \* run_bot: its local list closed_trades
    total_trades,   \* main.total_trades
    wins,           \* main.wins
    losses,         \* main.losses
    pl_pc,          \* pl_loop (the P/L monitor thread): where it stands
    call,           \* the last call of a function without side effects:
                    \* its name, its arguments and what it returned
    mt5_connected,  \* the terminal link: mt5.version() is None iff FALSE
    ec_pc,          \* ensure_connection: where the call stands
    ec_retries,     \* ensure_connection: its argument retries
    ec_delay,       \* ensure_connection: its argument delay
    ec_i,           \* ensure_connection: the loop variable i
    ec_ret,         \* ensure_connection: the value returned, None before
    ec_alive,       \* what the test of line 21 found (history)
    ec_attempts     \* results of the initialize_mt5 calls so far (history)

trades_vars == <<program, MODE, open_trades, t_prices>>
bot_vars == <<pc, idx, snapshot, cycle_closed, total_trades, wins, losses>>
main_vars == <<TEST_MODE, active_trades, closed_trades, m_op, bot_vars>>
aux_vars == <<pl_pc, call>>
conn_vars == <<mt5_connected, ec_pc, ec_retries, ec_delay, ec_i, ec_ret,
               ec_alive, ec_attempts>>
vars == <<program, MODE, open_trades, t_prices,
          TEST_MODE, active_trades, closed_trades, m_op,
          pc, idx, snapshot, cycle_closed, total_trades, wins, losses,
          pl_pc, call,
          mt5_connected, ec_pc, ec_retries, ec_delay, ec_i, ec_ret,
          ec_alive, ec_attempts>>

\* ---------------------------------------------------------------- bounds
MaxOpenTrades == 2      \* longest list open_trades explored
MaxPositions == 2       \* positions (active + closed) explored in main.py
MaxBotTrades == 2       \* positions run_bot opens in one behaviour
MaxRetries == 3         \* largest argument retries of ensure_connection

\* ------------------------------------------------------------- constants
PIP == 10000            \* the literal 0.0001, in units of 1e-8
LOT_SIZE == 10          \* config.LOT_SIZE = 0.1, in hundredths of a lot
PARTIAL_CLOSE_RATIO_PCT == 50   \* config.PARTIAL_CLOSE_RATIO = 0.5, in percent

\* config.TP_VALUES['FOREX'] and config.SL_VALUES['FOREX'] are read by
\* trades.open_trade but config.py does not define them; the values are the
\* static table of the specification's Scenario B (targets 5, 10, 15 pips).
TP_VALUES_FOREX == <<5, 10, 15>>
SL_VALUES_FOREX == 5

None == <<>>
Some(x) == <<x>>
IsNone(v) == v = <<>>
Val(v) == v[1]

Directions == {"BUY", "SELL"}

\* ------------------------------------------------------ trades.py inputs
TPairs == {"EURUSD", "USDJPY"}
TEntry == 11000 * PIP                       \* 1.10000
\* pips around the entry: every level of a trade, and one price on each side
\* of the entry strictly inside the stop and the first target
TOffsets == {-15, -10, -5, -2, 0, 2, 5, 10, 15}
TGrid == {TEntry + d * PIP : d \in TOffsets}
\* a current_prices dict: empty, or the price of one pair (a trade of the
\* other pair then takes the price-is-None path of line 62)
TPriceMaps == UNION {[S -> TGrid] : S \in {T \in SUBSET TPairs :
                                            Cardinality(T) <= 1}}

\* ----------------------------------------------------- trades.open_trade
\* lines 14-31: the trade dict
trades_new_trade(pair, direction, entry_price) ==
    [pair           |-> pair,
     direction      |-> direction,
     entry          |-> entry_price,
     sl             |-> IF direction = "BUY"
                        THEN entry_price - SL_VALUES_FOREX * PIP
                        ELSE entry_price + SL_VALUES_FOREX * PIP,
     tp1            |-> IF direction = "BUY"
                        THEN entry_price + TP_VALUES_FOREX[1] * PIP
                        ELSE entry_price - TP_VALUES_FOREX[1] * PIP,
     tp2            |-> IF direction = "BUY"
                        THEN entry_price + TP_VALUES_FOREX[2] * PIP
                        ELSE entry_price - TP_VALUES_FOREX[2] * PIP,
     tp3            |-> IF direction = "BUY"
                        THEN entry_price + TP_VALUES_FOREX[3] * PIP
                        ELSE entry_price - TP_VALUES_FOREX[3] * PIP,
     lot            |-> LOT_SIZE,
     status         |-> "OPEN",
     partial_closed |-> FALSE,
     moved_to_be    |-> FALSE]

\* lines 33-54: TEST appends to the list, LIVE only sends the order
trades_open_trade_list(trades, mode, pair, direction, entry_price) ==
    IF mode = "TEST"
    THEN Append(trades, trades_new_trade(pair, direction, entry_price))
    ELSE trades

trades_open_trade(pair, direction, entry_price) ==
    /\ Len(open_trades) < MaxOpenTrades
    /\ open_trades' = trades_open_trade_list(open_trades, MODE, pair,
                                             direction, entry_price)
    /\ t_prices' = << >>
    /\ UNCHANGED <<program, MODE, main_vars, aux_vars, conn_vars>>

\* ---------------------------------------------------- trades.update_trades
\* lines 67-68
trades_sl_crossed(trade, price) ==
    \/ (trade.direction = "BUY"  /\ price <= trade.sl)
    \/ (trade.direction = "SELL" /\ price >= trade.sl)

\* lines 75-76, 82-83, 89-90
trades_tp_crossed(trade, level, price) ==
    \/ (trade.direction = "BUY"  /\ price >= level)
    \/ (trade.direction = "SELL" /\ price <= level)

\* faulty variant: the flag follows the price instead of latching
trades_apply_tp1_unlatched(trade, price) ==
    [trade EXCEPT !.partial_closed =
                      trades_tp_crossed(trade, trade.tp1, price)]

\* faulty variant: the first target is tested against the tp3 level
trades_apply_tp1_wrong_level(trade, price) ==
    IF ~trade.partial_closed /\ trades_tp_crossed(trade, trade.tp3, price)
    THEN [trade EXCEPT !.partial_closed = TRUE]
    ELSE trade

\* lines 73-78
trades_apply_tp1(trade, price) ==
    IF ~trade.partial_closed /\ trades_tp_crossed(trade, trade.tp1, price)
    THEN [trade EXCEPT !.partial_closed = TRUE]
    ELSE trade

\* faulty variant: the flag is set but the stop-loss stays where it was
trades_apply_tp2_keeps_stop(trade, price) ==
    IF ~trade.moved_to_be /\ trades_tp_crossed(trade, trade.tp2, price)
    THEN [trade EXCEPT !.moved_to_be = TRUE]
    ELSE trade

\* lines 80-86
trades_apply_tp2(trade, price) ==
    IF ~trade.moved_to_be /\ trades_tp_crossed(trade, trade.tp2, price)
    THEN [trade EXCEPT !.sl = trade.entry, !.moved_to_be = TRUE]
    ELSE trade

\* lines 88-92
trades_apply_tp3(trade, price) ==
    IF trades_tp_crossed(trade, trade.tp3, price)
    THEN [trade EXCEPT !.status = "CLOSED_TP3"]
    ELSE trade

\* faulty variant: the `status != "OPEN"` test of line 59 is missing
trades_update_one_no_status_test(trade, current_prices) ==
    IF trade.pair \notin DOMAIN current_prices THEN trade
    ELSE LET price == current_prices[trade.pair] IN
         IF trades_sl_crossed(trade, price)
         THEN [trade EXCEPT !.status = "CLOSED_SL"]
         ELSE trades_apply_tp3(
                  trades_apply_tp2(
                      trades_apply_tp1(trade, price), price), price)

\* faulty variant: a pair without a price is updated with the price 0
trades_update_one_none_as_zero(trade, current_prices) ==
    IF trade.status # "OPEN" THEN trade
    ELSE LET price == IF trade.pair \in DOMAIN current_prices
                      THEN current_prices[trade.pair] ELSE 0
         IN
         IF trades_sl_crossed(trade, price)
         THEN [trade EXCEPT !.status = "CLOSED_SL"]
         ELSE trades_apply_tp3(
                  trades_apply_tp2(
                      trades_apply_tp1(trade, price), price), price)

\* faulty variant: the price is not looked up by the trade's pair; every open
\* trade is updated with a price of the map, whatever its pair
trades_update_one_any_price(trade, current_prices) ==
    IF trade.status # "OPEN" THEN trade
    ELSE IF DOMAIN current_prices = {} THEN trade
    ELSE LET price == current_prices[CHOOSE p \in DOMAIN current_prices :
                                        p = trade.pair
                                        \/ trade.pair \notin DOMAIN current_prices]
         IN
         IF trades_sl_crossed(trade, price)
         THEN [trade EXCEPT !.status = "CLOSED_SL"]
         ELSE trades_apply_tp3(
                  trades_apply_tp2(
                      trades_apply_tp1(trade, price), price), price)

\* lines 59-92: the loop body for one trade
trades_update_one(trade, current_prices) ==
    IF trade.status # "OPEN" THEN trade
    ELSE IF trade.pair \notin DOMAIN current_prices THEN trade
    ELSE LET price == current_prices[trade.pair] IN
         IF trades_sl_crossed(trade, price)
         THEN [trade EXCEPT !.status = "CLOSED_SL"]
         ELSE trades_apply_tp3(
                  trades_apply_tp2(
                      trades_apply_tp1(trade, price), price), price)

\* lines 56-92: the whole call
trades_update_trades(current_prices) ==
    /\ open_trades' = [k \in 1..Len(open_trades) |->
                          trades_update_one(open_trades[k], current_prices)]
    /\ t_prices' = current_prices
    /\ UNCHANGED <<program, MODE, main_vars, aux_vars, conn_vars>>


\* ------------------------------------------------------------ dashboard.py
\* lines 15-16: the two lists show_dashboard builds from its argument
show_dashboard_active(trades) ==
    SelectSeq(trades, LAMBDA t : t.status # "CLOSED")

show_dashboard_closed(trades) ==
    SelectSeq(trades, LAMBDA t : t.status = "CLOSED")

\* lines 8-19: show_dashboard on the list of trades.py, up to the header
\* line that prints the two counts
CallShowDashboard ==
    /\ program = "trades"
    /\ call' = [fn |-> "show_dashboard",
                ret |-> [active |-> Len(show_dashboard_active(open_trades)),
                         closed |-> Len(show_dashboard_closed(open_trades))]]
    /\ UNCHANGED <<trades_vars, conn_vars, main_vars, pl_pc>>

\* =================================================================== main.py
\* PAIR_NAMES (lines 57-61): the pairs that have a display name
PAIR_NAMES_KEYS == {"EURUSD", "GBPUSD", "USDJPY", "USDCAD", "XAUUSD"}

\* PAIR_SETTINGS (lines 46-52): TP/SL distances per instrument, in pips
PAIR_SETTINGS ==
    [p \in {"EURUSD", "GBPUSD", "USDJPY", "USDCAD", "XAUUSD"} |->
        CASE p = "EURUSD" -> [TP1 |-> 40, TP2 |-> 80, TP3 |-> 120, SL |-> 50]
          [] p = "GBPUSD" -> [TP1 |-> 50, TP2 |-> 100, TP3 |-> 150, SL |-> 60]
          [] p = "USDJPY" -> [TP1 |-> 30, TP2 |-> 60, TP3 |-> 90, SL |-> 40]
          [] p = "USDCAD" -> [TP1 |-> 25, TP2 |-> 50, TP3 |-> 75, SL |-> 30]
          [] p = "XAUUSD" -> [TP1 |-> 500, TP2 |-> 1000, TP3 |-> 1500,
                              SL |-> 600]]

\* DEFAULT_SETTINGS is assigned twice at module level: line 53, and again at
\* line 248, which is the binding every function sees once main.py is loaded
DEFAULT_SETTINGS_first == [TP1 |-> 40, TP2 |-> 80, TP3 |-> 120, SL |-> 50]
DEFAULT_SETTINGS == [TP1 |-> 40, TP2 |-> 40, TP3 |-> 40, SL |-> 50]

\* lines 104 and 249: PAIR_SETTINGS.get(pair, DEFAULT_SETTINGS)
settings(pair) ==
    IF pair \in DOMAIN PAIR_SETTINGS THEN PAIR_SETTINGS[pair]
    ELSE DEFAULT_SETTINGS

\* substring tests on the pair names the model uses
ContainsJPY(pair) == pair \in {"USDJPY", "JPY=X"}
IsGold(pair) == pair \in {"GC=F", "XAUUSD"}

\* pair.endswith('JPY'), on the same names
EndsWithJPY(pair) == pair \in {"USDJPY"}

\* lines 300-307: detect_pip_unit, the pip unit in units of 1e-8 and the
\* pip factor
detect_pip_unit(pair) ==
    IF EndsWithJPY(pair) THEN [pip_unit |-> 100 * PIP, pip_factor |-> 100]
    ELSE IF IsGold(pair) THEN [pip_unit |-> 1000 * PIP, pip_factor |-> 10]
    ELSE [pip_unit |-> PIP, pip_factor |-> 10000]

\* line 741: pf in display_dashboard
display_dashboard_pf(pair) ==
    IF pair = "GC=F" THEN 10
    ELSE IF ContainsJPY(pair) THEN 100
    ELSE 10000

\* line 945: pip_factor in pl_loop
pl_loop_pip_factor(symbol) ==
    IF symbol = "XAUUSD" THEN 10
    ELSE IF ContainsJPY(symbol) THEN 100
    ELSE 10000

\* lines 509-515: pip_unit inside open_trade, in units of 1e-8
open_trade_pip_unit(pair) ==
    IF ContainsJPY(pair) THEN 100 * PIP
    ELSE IF IsGold(pair) THEN 1000 * PIP
    ELSE PIP

\* A tp1/tp2/tp3/sl argument x is carried as the integer x * 10^4, so
\* x * pip_unit, in units of 1e-8, is that integer times pip_unit / 10^4.
TimesPipUnit(x4, pip_unit) == x4 * (pip_unit \div PIP)

ATR_SL_NUM == 5         \* sl_val = atr * 1.25 = atr * 5 / 4
ATR_SL_DEN == 4

\* lines 517-527: the four distances; atr is None or Some(value)
open_trade_vals(pair, atr, tp1, tp2, tp3, sl) ==
    LET pip_unit == open_trade_pip_unit(pair) IN
    IF ~IsNone(atr)
    THEN [tp1 |-> Val(atr),
          tp2 |-> Val(atr) * 2,
          tp3 |-> Val(atr) * 3,
          sl  |-> (Val(atr) * ATR_SL_NUM) \div ATR_SL_DEN]
    ELSE [tp1 |-> IF ~IsNone(tp1) THEN TimesPipUnit(Val(tp1), pip_unit)
                  ELSE 40 * pip_unit,
          tp2 |-> IF ~IsNone(tp2) THEN TimesPipUnit(Val(tp2), pip_unit)
                  ELSE 80 * pip_unit,
          tp3 |-> IF ~IsNone(tp3) THEN TimesPipUnit(Val(tp3), pip_unit)
                  ELSE 120 * pip_unit,
          sl  |-> IF ~IsNone(sl) THEN TimesPipUnit(Val(sl), pip_unit)
                  ELSE 50 * pip_unit]

\* lines 529-543: the trade dict (Entry_Time is wall-clock time, left out)
open_trade_record(pair, signal, current_price, atr, mode, tp1, tp2, tp3, sl) ==
    LET v == open_trade_vals(pair, atr, tp1, tp2, tp3, sl) IN
    [Pair    |-> pair,
     Signal  |-> signal,
     Entry   |-> current_price,
     TP1     |-> IF signal = "BUY" THEN current_price + v.tp1
                 ELSE current_price - v.tp1,
     TP2     |-> IF signal = "BUY" THEN current_price + v.tp2
                 ELSE current_price - v.tp2,
     TP3     |-> IF signal = "BUY" THEN current_price + v.tp3
                 ELSE current_price - v.tp3,
     SL      |-> IF signal = "BUY" THEN current_price - v.sl
                 ELSE current_price + v.sl,
     TP1_hit |-> FALSE,
     TP2_hit |-> FALSE,
     TP3_hit |-> FALSE,
     SL_hit  |-> FALSE,
     mode    |-> mode]

\* dict assignment d[k] = v and deletion del d[k]
DictSet(d, k, v) == [x \in (DOMAIN d) \cup {k} |-> IF x = k THEN v ELSE d[x]]
DictDel(d, k) == [x \in (DOMAIN d) \ {k} |-> d[x]]

\* line 529: active_trades[pair] = {...}, whatever the dict held before
open_trade_store(trades, pair, record) == DictSet(trades, pair, record)

\* lines 507-549
open_trade(pair, signal, current_price, atr, mode, tp1, tp2, tp3, sl) ==
    active_trades' = open_trade_store(active_trades, pair,
        open_trade_record(pair, signal, current_price, atr, mode,
                          tp1, tp2, tp3, sl))

\* -------------------------------------------------------- compute_live_pnl
\* lines 556-562: pips per unit of price
compute_live_pnl_pip_factor(pair) ==
    IF ContainsJPY(pair) THEN 100
    ELSE IF IsGold(pair) THEN 10
    ELSE 10000

\* lines 550-570: the P/L in pips, returned in hundredths of a pip
\* (round(pnl, 2)).  A price difference d, in units of 1e-8, times the pip
\* factor is d * pip_factor / 10^6 hundredths; prices have at most six
\* decimals, so d is taken in units of 1e-6 to stay within 32 bits, and
\* the quotient by 10^4 is rounded to the nearest.
compute_live_pnl(trade, current_price) ==
    LET pip_factor == compute_live_pnl_pip_factor(trade.Pair)
        pnl == IF trade.Signal = "BUY"
               THEN ((current_price - trade.Entry) \div 100) * pip_factor
               ELSE ((trade.Entry - current_price) \div 100) * pip_factor
    IN (pnl + 5000) \div 10000

\* ------------------------------------------------------------ check_trades
\* the favourable-direction test of lines 639, 647, 655
tp_crossed(trade, level, current_price) ==
    \/ (trade.Signal = "BUY"  /\ current_price >= level)
    \/ (trade.Signal = "SELL" /\ current_price <= level)

\* the adverse-direction test of line 660
sl_crossed(trade, current_price) ==
    \/ (trade.Signal = "BUY"  /\ current_price <= trade.SL)
    \/ (trade.Signal = "SELL" /\ current_price >= trade.SL)

\* PAIR_NAMES[pair] raises KeyError for a pair without a display name
NameRaises(pair) == pair \notin PAIR_NAMES_KEYS

\* The try block is a chain of stages over [t: the trade, exc: raised].
\* A stage that sets a flag then prints PAIR_NAMES[pair]: the flag is
\* already stored in the dict when the KeyError leaves the block.
check_tp1(st, pair, current_price) ==
    IF st.exc THEN st
    ELSE IF ~st.t.TP1_hit /\ tp_crossed(st.t, st.t.TP1, current_price)
    THEN [t |-> [st.t EXCEPT !.TP1_hit = TRUE], exc |-> NameRaises(pair)]
    ELSE st

check_tp2(st, pair, current_price) ==
    IF st.exc THEN st
    ELSE IF ~st.t.TP2_hit /\ tp_crossed(st.t, st.t.TP2, current_price)
    THEN [t |-> [st.t EXCEPT !.TP2_hit = TRUE], exc |-> NameRaises(pair)]
    ELSE st

check_tp3(st, pair, current_price) ==
    IF st.exc THEN st
    ELSE IF ~st.t.TP3_hit /\ tp_crossed(st.t, st.t.TP3, current_price)
    THEN [t |-> [st.t EXCEPT !.TP3_hit = TRUE], exc |-> NameRaises(pair)]
    ELSE st

check_sl(st, pair, current_price) ==
    IF st.exc THEN st
    ELSE IF ~st.t.SL_hit /\ sl_crossed(st.t, current_price)
    THEN [t |-> [st.t EXCEPT !.SL_hit = TRUE], exc |-> NameRaises(pair)]
    ELSE st

\* lines 665-669: the suggestion line prints PAIR_NAMES[pair]
check_suggestion(st, pair) ==
    IF st.exc THEN st
    ELSE IF ~st.t.SL_hit THEN [st EXCEPT !.exc = NameRaises(pair)]
    ELSE st

\* lines 639-669
check_stages(trade, pair, current_price) ==
    check_suggestion(
        check_sl(
            check_tp3(
                check_tp2(
                    check_tp1([t |-> trade, exc |-> FALSE],
                              pair, current_price),
                    pair, current_price),
                pair, current_price),
            pair, current_price),
        pair)

\* line 672
check_closes(st) == ~st.exc /\ (st.t.TP3_hit \/ st.t.SL_hit)

\* lines 673-675: the record appended to closed_trades
closed_record(trade, current_price) ==
    [Pair |-> trade.Pair, Signal |-> trade.Signal, Entry |-> trade.Entry,
     TP1 |-> trade.TP1, TP2 |-> trade.TP2, TP3 |-> trade.TP3,
     SL |-> trade.SL, TP1_hit |-> trade.TP1_hit, TP2_hit |-> trade.TP2_hit,
     TP3_hit |-> trade.TP3_hit, SL_hit |-> trade.SL_hit,
     mode |-> trade.mode, Close_Price |-> current_price]

\* lines 678-683: the outcome printed and logged for a closed trade
check_trades_result(trade) ==
    IF \/ (trade.Signal = "BUY" /\ trade.Close_Price > trade.Entry)
       \/ (trade.Signal = "SELL" /\ trade.Close_Price < trade.Entry)
    THEN "WIN"
    ELSE "LOSS"

\* lines 634-685
check_trades(pair, current_price) ==
    IF pair \notin DOMAIN active_trades
    THEN UNCHANGED <<active_trades, closed_trades>>
    ELSE LET st == check_stages(active_trades[pair], pair, current_price) IN
         IF check_closes(st)
         THEN /\ closed_trades' =
                    Append(closed_trades, closed_record(st.t, current_price))
              /\ active_trades' = DictDel(active_trades, pair)
         ELSE /\ active_trades' = [active_trades EXCEPT ![pair] = st.t]
              /\ UNCHANGED closed_trades

\* ------------------------------------- callers of open_trade / check_trades
MPairs == {"EURUSD", "EURUSD=X"}
MEntry == 11000 * PIP                   \* 1.10000
\* What calculate_atr returns for the df argument: None (no df, or a frame
\* without the columns High/Low/Close, lines 377-379) or the mean true range
\* of the last bars, which is 0 for bars without any range.
MAtrs == {None, Some(0)}

ModeOf(test_mode) == IF test_mode THEN "test" ELSE "live"

\* the levels of a trade, the prices a caller feeds to check_trades
LevelsOf(trade) == {trade.SL, trade.Entry, trade.TP1, trade.TP2, trade.TP3}

CallOpenTrade(pair, signal, atr) ==
    /\ \/ pair \in DOMAIN active_trades
       \/ Cardinality(DOMAIN active_trades) + Len(closed_trades) < MaxPositions
    /\ open_trade(pair, signal, MEntry, atr, ModeOf(TEST_MODE),
                  None, None, None, None)
    /\ m_op' = [name |-> "open_trade", pair |-> pair, price |-> MEntry]
    /\ UNCHANGED <<TEST_MODE, closed_trades, bot_vars, trades_vars,
                   conn_vars, aux_vars>>

CallCheckTrades(pair, current_price) ==
    /\ check_trades(pair, current_price)
    /\ m_op' = [name |-> "check_trades", pair |-> pair,
                price |-> current_price]
    /\ UNCHANGED <<TEST_MODE, bot_vars, trades_vars, conn_vars, aux_vars>>

\* ----------------------------------------------------------------- run_bot
PAIRS == <<"EURUSD", "GBPUSD", "USDJPY", "USDCAD", "XAUUSD">>   \* line 56
MIN_RSI == 30                   \* main.py line 263
MAX_RSI == 70                   \* main.py line 264
REQUIRED_SUSTAINED_CANDLES == 2 \* main.py line 265

\* A data frame is summarised by what generate_signal and calculate_atr read:
\* its length, whether EMA5 > EMA12 (EMA5 < EMA12) held on each of the last
\* REQUIRED_SUSTAINED_CANDLES rows, the last value of its RSI column (None:
\* no RSI column, the lookup raises KeyError) and the ATR calculate_atr
\* returns.  osc is the 14-bar RSI of its closes, the value fetch_data
\* (line 362) stores in the RSI column of the frames it builds.
Frame(n, buy, sell, rsi, atr, osc) ==
    [len |-> n, sustained_buy |-> buy, sustained_sell |-> sell,
     rsi |-> rsi, atr |-> atr, osc |-> osc]

\* lines 384-399
generate_signal(df) ==
    IF df.len < REQUIRED_SUSTAINED_CANDLES + 5 THEN None
    ELSE IF IsNone(df.rsi) THEN None                 \* KeyError, lines 397-399
    ELSE IF df.sustained_buy /\ Val(df.rsi) < MAX_RSI THEN Some("BUY")
    ELSE IF df.sustained_sell /\ Val(df.rsi) > MIN_RSI THEN Some("SELL")
    ELSE None

\* line 762: gold_pairs
InGoldPairs(pair) == pair \in {"XAU/USD", "GC=F", "Gold/USD"}

\* lines 800-810: the levels run_bot computes and passes on as tp1..sl,
\* each carried as level * 10^4
run_bot_levels(pair, signal, price) ==
    LET p4 == price \div PIP IN
    IF signal = "BUY"
    THEN IF InGoldPairs(pair)
         THEN [tp1 |-> p4 + 50, tp2 |-> p4 + 100, tp3 |-> p4 + 150,
               sl |-> p4 - 70]
         ELSE [tp1 |-> p4 + 40, tp2 |-> p4 + 80, tp3 |-> p4 + 120,
               sl |-> p4 - 50]
    ELSE IF InGoldPairs(pair)
         THEN [tp1 |-> p4 - 50, tp2 |-> p4 - 100, tp3 |-> p4 - 150,
               sl |-> p4 + 70]
         ELSE [tp1 |-> p4 - 40, tp2 |-> p4 - 80, tp3 |-> p4 - 120,
               sl |-> p4 + 50]

\* faulty variant: the `pair not in active_trades` test is missing
run_bot_may_open_always(trades, pair) == TRUE

\* line 831: the guard in front of open_trade
run_bot_may_open(trades, pair) == pair \notin DOMAIN trades

\* the inputs of one evaluation: the tick (None, or one price standing for
\* ask and bid), the frame built from the rates, and whether an MT5 or
\* pandas call raises
BotTickPrices == {0, MEntry}
BotTicks == {None} \cup {Some(p) : p \in BotTickPrices}
\* The frame run_bot builds (lines 778-786) has the fields of the rates plus
\* EMA5 and EMA12: it has an RSI column only if the rates carry one.
BotFrames ==
    {Frame(0, FALSE, FALSE, None, None, 50),        \* no rates
     Frame(50, TRUE, FALSE, None, None, 50),        \* no RSI column
     Frame(50, TRUE, FALSE, Some(50), None, 50),    \* BUY
     Frame(50, FALSE, TRUE, Some(50), None, 50),    \* SELL
     Frame(50, TRUE, FALSE, Some(70), None, 70),    \* RSI at the limit
     Frame(50, FALSE, FALSE, Some(50), None, 50)}   \* no sustained trend

BotBudgetLeft ==
    total_trades + Len(cycle_closed) + Cardinality(DOMAIN active_trades)
        < MaxBotTrades

EvalNote(name, pair, price) == [name |-> name, pair |-> pair, price |-> price]

\* lines 768-857: the body of `for pair in PAIRS` for the pair PAIRS[idx]
run_bot_eval(tick, df, raises) ==
    /\ pc = "eval"
    /\ idx <= Len(PAIRS)
    /\ LET pair == PAIRS[idx]
           signal == generate_signal(df)
       IN
       IF raises
       THEN \* an exception leaves the for loop for the handler of line 922
            /\ pc' = "error"
            /\ m_op' = EvalNote("raised", pair, 0)
            /\ UNCHANGED <<active_trades, idx>>
       ELSE
       /\ pc' = pc
       /\ idx' = idx + 1
       /\ IF IsNone(tick)
          THEN /\ m_op' = EvalNote("skip_tick", pair, 0)
               /\ UNCHANGED active_trades
          ELSE IF df.len = 0
          THEN /\ m_op' = EvalNote("skip_data", pair, 0)
               /\ UNCHANGED active_trades
          ELSE IF IsNone(signal)
          THEN /\ m_op' = EvalNote("skip_signal", pair, 0)
               /\ UNCHANGED active_trades
          ELSE IF Val(tick) <= 0
          THEN /\ m_op' = EvalNote("skip_price", pair, Val(tick))
               /\ UNCHANGED active_trades
          ELSE LET price == Val(tick)
                   lv == run_bot_levels(pair, Val(signal), price)
               IN
               IF run_bot_may_open(active_trades, pair)
               THEN /\ BotBudgetLeft
                    /\ open_trade(pair, Val(signal), price, df.atr,
                                  ModeOf(TEST_MODE), Some(lv.tp1),
                                  Some(lv.tp2), Some(lv.tp3), Some(lv.sl))
                    /\ m_op' = EvalNote("open_trade", pair, price)
               ELSE /\ m_op' = EvalNote("already_open", pair, price)
                    /\ UNCHANGED active_trades
    /\ UNCHANGED <<TEST_MODE, closed_trades, snapshot, cycle_closed,
                   total_trades, wins, losses, trades_vars, conn_vars, aux_vars>>

\* lines 859-861: closed_trades = [] and the snapshot list(active_trades.values())
\* (the order of the snapshot is not kept: the update loop below may visit
\* the snapshot in any order)
run_bot_begin_update ==
    /\ pc = "eval"
    /\ idx > Len(PAIRS)
    /\ pc' = "update"
    /\ snapshot' = DOMAIN active_trades
    /\ cycle_closed' = << >>
    /\ m_op' = EvalNote("begin_update", "", 0)
    /\ UNCHANGED <<TEST_MODE, active_trades, closed_trades, idx,
                   total_trades, wins, losses, trades_vars, conn_vars, aux_vars>>

\* lines 867-884: what one price does to one trade of the snapshot;
\* the result is "WIN", "LOSS" or "" (the trade stays)
run_bot_outcome(trade, price) ==
    IF trade.Signal = "BUY"
    THEN IF price >= trade.TP1 /\ ~trade.TP1_hit THEN "WIN"
         ELSE IF price <= trade.SL THEN "LOSS"
         ELSE ""
    ELSE IF price <= trade.TP1 /\ ~trade.TP1_hit THEN "WIN"
         ELSE IF price >= trade.SL THEN "LOSS"
         ELSE ""

\* lines 861-884: one iteration of the update loop; price is None when the
\* tick is missing
run_bot_update(pair, price, raises) ==
    /\ pc = "update"
    /\ pair \in snapshot
    /\ IF raises
       THEN /\ pc' = "error"
            /\ m_op' = EvalNote("raised", pair, 0)
            /\ UNCHANGED <<active_trades, snapshot, cycle_closed>>
       ELSE
       /\ pc' = pc
       /\ snapshot' = snapshot \ {pair}
       /\ IF IsNone(price)
          THEN /\ m_op' = EvalNote("update_no_price", pair, 0)
               /\ UNCHANGED <<active_trades, cycle_closed>>
          ELSE LET result == run_bot_outcome(active_trades[pair], Val(price))
               IN
               /\ m_op' = EvalNote("update", pair, Val(price))
               /\ IF result = ""
                  THEN UNCHANGED <<active_trades, cycle_closed>>
                  ELSE /\ cycle_closed' = Append(cycle_closed,
                                [pair |-> pair, result |-> result])
                       /\ active_trades' = DictDel(active_trades, pair)
    /\ UNCHANGED <<TEST_MODE, closed_trades, idx, total_trades, wins, losses,
                   trades_vars, conn_vars, aux_vars>>

CountResult(list, result) ==
    Cardinality({k \in 1..Len(list) : list[k].result = result})

\* lines 886-920: the statistics loop, the dashboard log and the sleep
run_bot_stats ==
    /\ pc = "update"
    /\ snapshot = {}
    /\ total_trades' = total_trades + Len(cycle_closed)
    /\ wins' = wins + CountResult(cycle_closed, "WIN")
    /\ losses' = losses + (Len(cycle_closed) - CountResult(cycle_closed, "WIN"))
    /\ pc' = "eval"
    /\ idx' = 1
    /\ m_op' = EvalNote("stats", "", 0)
    /\ UNCHANGED <<TEST_MODE, active_trades, closed_trades, snapshot,
                   cycle_closed, trades_vars, conn_vars, aux_vars>>

\* faulty variant: the handler ends the loop instead of going round again
run_bot_recover_halts ==
    /\ pc = "error"
    /\ pc' = "halted"
    /\ m_op' = EvalNote("halted", "", 0)
    /\ UNCHANGED <<TEST_MODE, active_trades, closed_trades, idx, snapshot,
                   cycle_closed, total_trades, wins, losses, trades_vars,
                   conn_vars, aux_vars>>

\* lines 922-925: the handler logs, sleeps and the while loop starts over
run_bot_recover ==
    /\ pc = "error"
    /\ pc' = "eval"
    /\ idx' = 1
    /\ m_op' = EvalNote("recover", "", 0)
    /\ UNCHANGED <<TEST_MODE, active_trades, closed_trades, snapshot,
                   cycle_closed, total_trades, wins, losses, trades_vars,
                   conn_vars, aux_vars>>

\* ----------------------------------------------------------------- pl_loop
\* lines 930-953, the thread started at line 985.  One pass of the loop body
\* reads the MT5 positions and ticks and prints their P/L (lines 933-947,
\* with both handlers); it reads and writes no variable of the module.
pl_loop_poll_marks_hit ==
    /\ pl_pc = "poll"
    /\ pl_pc' = "sleep"
    /\ active_trades' = [p \in DOMAIN active_trades |->
                            [active_trades[p] EXCEPT !.TP1_hit = TRUE]]
    /\ UNCHANGED <<TEST_MODE, closed_trades, m_op, bot_vars, trades_vars, conn_vars,
                   call>>

pl_loop_poll ==
    /\ pl_pc = "poll"
    /\ pl_pc' = "sleep"
    /\ UNCHANGED <<main_vars, trades_vars, conn_vars, call>>

\* lines 948 and 951: time.sleep(2), then the next pass
pl_loop_sleep ==
    /\ pl_pc = "sleep"
    /\ pl_pc' = "poll"
    /\ UNCHANGED <<main_vars, trades_vars, conn_vars, call>>

\* =============================================================== classifiers
\* An indicator value is None where pandas holds NaN and <<x>> otherwise.
\* The oscillator (RSI) is carried in whole points, 0..100.

\* ------------------------------------------------------------- backtest.py
\* PARAMS, lines 21-34
sma_fast == 10
sma_slow == 20
rsi_ok_long_min == 45
rsi_ok_long_max == 65
rsi_ok_short_min == 35
rsi_ok_short_max == 55
MIN_BARS_REQUIRED == 50

\* lines 46-53: the RSI of a bar whose smoothed gain is avg_gain and whose
\* smoothed loss is avg_loss; a zero avg_loss is replaced by NaN, and the
\* first bar has no delta.  The quotient is rounded down to a point.
compute_indicators_rsi(n, avg_gain, avg_loss) ==
    IF n < 2 \/ avg_loss = 0 THEN None
    ELSE Some((100 * avg_gain) \div (avg_gain + avg_loss))

\* lines 37-60: the indicator row of bar number n (counted from 1) of a
\* series.  The rolling means are NaN until their window is full; the
\* exponential means and the true range are defined from the first bar.
compute_indicators(bar) ==
    [SMA_fast |-> IF bar.n < sma_fast THEN None ELSE Some(bar.sma_f),
     SMA_slow |-> IF bar.n < sma_slow THEN None ELSE Some(bar.sma_s),
     MACD |-> Some(bar.macd),
     MACD_SIGNAL |-> Some(bar.macd_signal),
     RSI |-> compute_indicators_rsi(bar.n, bar.avg_gain, bar.avg_loss),
     ATR |-> Some(bar.atr)]

\* lines 66-68: the keys signal_on_bar tests with pd.isna
signal_on_bar_isna(row) ==
    \/ IsNone(row.SMA_fast) \/ IsNone(row.SMA_slow)
    \/ IsNone(row.MACD) \/ IsNone(row.MACD_SIGNAL)
    \/ IsNone(row.RSI) \/ IsNone(row.ATR)

\* lines 72-77, read only where no key is NaN
trend_up(row) == Val(row.SMA_fast) > Val(row.SMA_slow)
trend_down(row) == Val(row.SMA_fast) < Val(row.SMA_slow)
macd_cross_up(row) == Val(row.MACD) > Val(row.MACD_SIGNAL)
macd_cross_down(row) == Val(row.MACD) < Val(row.MACD_SIGNAL)
rsi_ok_long(row) ==
    rsi_ok_long_min <= Val(row.RSI) /\ Val(row.RSI) <= rsi_ok_long_max
rsi_ok_short(row) ==
    rsi_ok_short_min <= Val(row.RSI) /\ Val(row.RSI) <= rsi_ok_short_max

\* line 78, the condition of `return "BUY"`
signal_on_bar_buy(row) ==
    trend_up(row) /\ macd_cross_up(row) /\ rsi_ok_long(row)

signal_on_bar_sell_band_only(row) == rsi_ok_short(row)

\* line 80, the condition of `return "SELL"`
signal_on_bar_sell(row) ==
    trend_down(row) /\ macd_cross_down(row) /\ rsi_ok_short(row)

\* lines 63-82; prev_row is never read
signal_on_bar(row) ==
    IF signal_on_bar_isna(row) THEN "HOLD"
    ELSE IF signal_on_bar_buy(row) THEN "BUY"
    ELSE IF signal_on_bar_sell(row) THEN "SELL"
    ELSE "HOLD"

\* -------------------------------------------------------------- signals.py
EMA_SLOW == 6           \* config.EMA_SLOW
RSI_PERIOD == 14

\* lines 55-61: the last value of calculate_rsi, for a frame of n rows whose
\* last RSI_PERIOD gains sum to gain and losses to loss.  rolling(period)
\* is NaN before row `period`; gain / loss is inf for loss = 0 < gain, which
\* gives 100, and NaN for 0 / 0.  The quotient is rounded down to a point.
calculate_rsi(n, gain, loss) ==
    IF n < RSI_PERIOD THEN None
    ELSE IF loss = 0 THEN (IF gain = 0 THEN None ELSE Some(100))
    ELSE Some((100 * gain) \div (gain + loss))

\* lines 85-89, the conditions of the two assignments to signal.
\* A comparison with NaN is false.
signals_buy(ema_fast, ema_slow, rsi) ==
    ema_fast > ema_slow /\ ~IsNone(rsi) /\ Val(rsi) > 50

signals_sell(ema_fast, ema_slow, rsi) ==
    ema_fast < ema_slow /\ ~IsNone(rsi) /\ Val(rsi) < 50

\* line 72: max(EMA_SLOW, RSI_PERIOD)
signals_min_len == IF EMA_SLOW > RSI_PERIOD THEN EMA_SLOW ELSE RSI_PERIOD

\* lines 64-93.  in_session is the answer of the session filter; df is None
\* (get_data found no bars) or the frame get_data returned, summarised by
\* its length, the last values of ema_fast and ema_slow and the sums of
\* the gains and of the losses of its last RSI_PERIOD rows.
signals_generate_signal(in_session, df) ==
    IF ~in_session THEN None
    ELSE IF IsNone(df) \/ Val(df).len < signals_min_len THEN None
    ELSE LET d == Val(df)
             rsi == calculate_rsi(d.len, d.gain, d.loss)
         IN IF signals_buy(d.ema_fast, d.ema_slow, rsi) THEN Some("BUY")
            ELSE IF signals_sell(d.ema_fast, d.ema_slow, rsi) THEN Some("SELL")
            ELSE None

\* ----------------------------------------------- main.py, generate_signal
\* lines 389-390: the two all(...) over the last REQUIRED_SUSTAINED_CANDLES
\* rows; tail is the sequence of these rows, oldest first
main_sustained_buy(tail) ==
    \A i \in 0..(REQUIRED_SUSTAINED_CANDLES - 1) :
        tail[Len(tail) - i].EMA5 > tail[Len(tail) - i].EMA12

main_sustained_sell(tail) ==
    \A i \in 0..(REQUIRED_SUSTAINED_CANDLES - 1) :
        tail[Len(tail) - i].EMA5 < tail[Len(tail) - i].EMA12

\* the summary generate_signal reads, of a frame with n rows ending in tail
FrameOf(n, tail, rsi, atr, osc) ==
    Frame(n, main_sustained_buy(tail), main_sustained_sell(tail),
          rsi, atr, osc)

\* line 362: the last value of the RSI column fetch_data computes for a
\* frame of n rows; up and down are the rolling(14) means of the rises and
\* of the falls, in units of 1e-8, and the first delta is NaN, so the
\* window is full from row 15 on.  The quotient is rounded down to a point.
fetch_data_rsi_partial_window(n, up, down) ==
    Some((100 * up) \div (up + down + 1))

fetch_data_rsi(n, up, down) ==
    IF n < 15 THEN None
    ELSE Some((100 * up) \div (up + down + 1))

\* lines 346-366.  rates is what mt5.copy_rates_from_pos returned: its
\* length, whether it has a column named 'Close' (MT5 names it 'close';
\* without it line 356 or 358 raises KeyError and the handler returns
\* None), the EMA5/EMA12 values of its last rows and the rolling means.
fetch_data(rates) ==
    IF rates.len = 0 \/ ~rates.Close THEN None
    ELSE LET rsi == fetch_data_rsi(rates.len, rates.up, rates.down)
         IN Some(FrameOf(rates.len, rates.tail, rsi, None, rsi))

\* lines 418 and 386-387: generate_signal of what fetch_data returned
fetch_data_signal(rates) ==
    LET df == fetch_data(rates)
    IN IF IsNone(df) THEN None ELSE generate_signal(Val(df))

\* ------------------------------------------- backtest.py, backtest_pair
tp_atr_mult_pct == 100          \* PARAMS["tp_atr_mult"] = 1.0, in percent
sl_atr_mult_pct == 67           \* PARAMS["sl_atr_mult"] = 0.67, in percent

\* lines 104-109: the single target and the stop of a simulated trade, or
\* None where the bar is skipped for want of a positive ATR
backtest_levels(sig, entry_price, atr) ==
    IF IsNone(atr) \/ Val(atr) <= 0 THEN None
    ELSE LET tp_dist == (tp_atr_mult_pct * Val(atr)) \div 100
             sl_dist == (sl_atr_mult_pct * Val(atr)) \div 100
         IN Some([tp |-> IF sig = "BUY" THEN entry_price + tp_dist
                         ELSE entry_price - tp_dist,
                  sl |-> IF sig = "BUY" THEN entry_price - sl_dist
                         ELSE entry_price + sl_dist])

\* ------------------------------------------------ callers of the classifiers
\* smoothed gain and loss of a bar; over a total of 100 the oscillator is the
\* gain, which puts it on, inside and outside every band edge
GainLoss ==
    {<<g, 100 - g>> : g \in {34, 35, 44, 45, 50, 55, 56, 65, 66}}
        \cup {<<5, 0>>, <<0, 0>>}

Bars ==
    {[n |-> n, sma_f |-> f, sma_s |-> w, macd |-> m, macd_signal |-> 0,
      avg_gain |-> gl[1], avg_loss |-> gl[2], atr |-> 5 * PIP] :
        n \in {1, sma_slow - 1, sma_slow, MIN_BARS_REQUIRED},
        f \in {1, 2}, w \in {1, 2}, m \in {-1, 0, 1}, gl \in GainLoss}

SignalsFrames ==
    {None} \cup
    {Some([len |-> n, ema_fast |-> f, ema_slow |-> w,
           gain |-> gl[1], loss |-> gl[2]]) :
        n \in {EMA_SLOW, RSI_PERIOD - 1, RSI_PERIOD, 50},
        f \in {1, 2}, w \in {1, 2}, gl \in GainLoss}

\* rolling means of the rises and falls of main.fetch_data, in units of 1e-8;
\* over a total of 99 line 362 gives the rise as the oscillator
UpDown ==
    {<<u, 99 - u>> : u \in {20, 29, 30, 31, 50, 69, 70, 71, 80}}
        \cup {<<70, 0>>, <<0, 0>>}

EmaTails ==
    [1..REQUIRED_SUSTAINED_CANDLES -> [EMA5 : {1, 2}, EMA12 : {1, 2}]]

MainRates ==
    {[len |-> n, Close |-> c, tail |-> t, up |-> ud[1], down |-> ud[2]] :
        n \in {0, REQUIRED_SUSTAINED_CANDLES + 4,
               REQUIRED_SUSTAINED_CANDLES + 5, 14, 15, 50},
        c \in BOOLEAN, t \in EmaTails, ud \in UpDown}

\* Each call records, as ind, the indicator values computed on the way.
\* backtest.py line 97, on the indicator row of one bar
CallSignalOnBar(bar) ==
    /\ program = "backtest"
    /\ call' = [fn |-> "signal_on_bar", args |-> bar,
                ind |-> compute_indicators(bar),
                ret |-> signal_on_bar(compute_indicators(bar))]
    /\ UNCHANGED <<trades_vars, conn_vars, main_vars, pl_pc>>

\* signals.generate_signal(pair) (its caller is signals_ml.py line 66)
CallSignalsGenerateSignal(in_session, df) ==
    /\ program = "signals"
    /\ call' = [fn |-> "signals.generate_signal",
                args |-> [in_session |-> in_session, df |-> df],
                ind |-> IF in_session /\ ~IsNone(df)
                           /\ Val(df).len >= signals_min_len
                        THEN calculate_rsi(Val(df).len, Val(df).gain,
                                           Val(df).loss)
                        ELSE None,
                ret |-> signals_generate_signal(in_session, df)]
    /\ UNCHANGED <<trades_vars, conn_vars, main_vars, pl_pc>>

\* the positions compute_live_pnl is given: one per instrument class and
\* direction, as open_trade stores them, each priced at its own levels
PnlTrades ==
    {open_trade_record(pair, signal, MEntry, None, "live",
                       None, None, None, None) :
        pair \in {"EURUSD", "USDJPY", "XAUUSD"}, signal \in Directions}

\* main.py lines 623 and 700; trade_after is the dict after the call
CallComputeLivePnl(trade, current_price) ==
    /\ program = "main"
    /\ call' = [fn |-> "compute_live_pnl",
                args |-> [trade |-> trade, current_price |-> current_price],
                trade_after |-> trade,
                ret |-> compute_live_pnl(trade, current_price)]
    /\ UNCHANGED <<trades_vars, conn_vars, main_vars, pl_pc>>

\* instrument names of each class: plain forex, JPY as suffix and as
\* prefix, gold under its two names
ScalingPairs == {"EURUSD", "USDJPY", "JPY=X", "XAUUSD", "GC=F"}

\* every place of main.py that derives the scaling of an instrument from
\* its name, asked about the same name
CallPipScaling(pair) ==
    /\ program = "main"
    /\ call' = [fn |-> "pip_scaling", args |-> pair,
                ret |-> [detect_pip_unit |-> detect_pip_unit(pair),
                         open_trade |-> open_trade_pip_unit(pair),
                         compute_live_pnl |->
                             compute_live_pnl_pip_factor(pair),
                         display_dashboard |-> display_dashboard_pf(pair),
                         pl_loop |-> pl_loop_pip_factor(pair)]]
    /\ UNCHANGED <<trades_vars, conn_vars, main_vars, pl_pc>>

\* main.py lines 491-495 and 418: generate_signal on a frame of fetch_data
CallFetchDataSignal(rates) ==
    /\ program = "main"
    /\ call' = [fn |-> "main.generate_signal", args |-> rates,
                ind |-> fetch_data(rates),
                ret |-> fetch_data_signal(rates)]
    /\ UNCHANGED <<trades_vars, conn_vars, main_vars, pl_pc>>

\* ========================================================= mt5_connection.py
\* the values of the argument delay explored (the default is 5)
Delays == {0, 1, 5}

\* line 19: ensure_connection(retries, delay) is called
ensure_connection_call(retries, delay) ==
    /\ program = "mt5_connection"
    /\ ec_pc \in {"idle", "returned"}
    /\ ec_pc' = "test"
    /\ ec_retries' = retries
    /\ ec_delay' = delay
    /\ ec_i' = 0
    /\ ec_ret' = None
    /\ ec_alive' = None
    /\ ec_attempts' = << >>
    /\ UNCHANGED <<mt5_connected, trades_vars, main_vars, aux_vars>>

\* lines 21 and 31: `if mt5.version() is None`, else `return True`
ensure_connection_test ==
    /\ ec_pc = "test"
    /\ ec_alive' = Some(mt5_connected)
    /\ IF mt5_connected
       THEN /\ ec_pc' = "returned"
            /\ ec_ret' = Some(TRUE)
       ELSE /\ ec_pc' = "loop"
            /\ UNCHANGED ec_ret
    /\ UNCHANGED <<mt5_connected, ec_retries, ec_delay, ec_i, ec_attempts,
                   trades_vars, main_vars, aux_vars>>

\* faulty variant: the loop makes one attempt more than retries
ensure_connection_more_off_by_one(i, retries) == i <= retries

\* line 23: `for i in range(retries)` has a next value
ensure_connection_more(i, retries) == i < retries

\* lines 23, 29-30: the loop header; `return False` once the range is used up
ensure_connection_loop ==
    /\ ec_pc = "loop"
    /\ IF ensure_connection_more(ec_i, ec_retries)
       THEN /\ ec_pc' = "attempt"
            /\ UNCHANGED ec_ret
       ELSE /\ ec_pc' = "returned"
            /\ ec_ret' = Some(FALSE)
    /\ UNCHANGED <<mt5_connected, ec_retries, ec_delay, ec_i, ec_alive,
                   ec_attempts, trades_vars, main_vars, aux_vars>>

\* lines 5-16: initialize_mt5 returns what mt5.initialize returned, ok
initialize_mt5(ok) == ok

\* lines 24-26: one attempt; `return True` when it succeeded
ensure_connection_attempt(ok) ==
    /\ ec_pc = "attempt"
    /\ mt5_connected' = ok
    /\ ec_attempts' = Append(ec_attempts, initialize_mt5(ok))
    /\ IF initialize_mt5(ok)
       THEN /\ ec_pc' = "returned"
            /\ ec_ret' = Some(TRUE)
       ELSE /\ ec_pc' = "sleep"
            /\ UNCHANGED ec_ret
    /\ UNCHANGED <<ec_retries, ec_delay, ec_i, ec_alive,
                   trades_vars, main_vars, aux_vars>>

\* lines 27-28: the warning and time.sleep(delay), then the next i
ensure_connection_sleep ==
    /\ ec_pc = "sleep"
    /\ ec_i' = ec_i + 1
    /\ ec_pc' = "loop"
    /\ UNCHANGED <<mt5_connected, ec_retries, ec_delay, ec_ret, ec_alive,
                   ec_attempts, trades_vars, main_vars, aux_vars>>

\* the terminal drops the link (mt5.version() returns None from then on)
mt5_disconnect ==
    /\ program = "mt5_connection"
    /\ mt5_connected
    /\ mt5_connected' = FALSE
    /\ UNCHANGED <<ec_pc, ec_retries, ec_delay, ec_i, ec_ret, ec_alive,
                   ec_attempts, trades_vars, main_vars, aux_vars>>

\* --------------------------------------------------------- specification
InitTradesVars ==
    /\ open_trades = << >>
    /\ t_prices = << >>

\* ensure_connection has not been called
InitConnVars ==
    /\ ec_pc = "idle"
    /\ ec_retries = 0
    /\ ec_delay = 0
    /\ ec_i = 0
    /\ ec_ret = None
    /\ ec_alive = None
    /\ ec_attempts = << >>

\* no function has been called, the monitor thread has not run yet
InitAuxVars ==
    /\ pl_pc = "idle"
    /\ call = [fn |-> "none"]

InitMainVars ==
    /\ active_trades = << >>
    /\ closed_trades = << >>
    /\ m_op = [name |-> "init", pair |-> "", price |-> 0]
    /\ pc = "eval"
    /\ idx = 1
    /\ snapshot = {}
    /\ cycle_closed = << >>
    /\ total_trades = 0
    /\ wins = 0
    /\ losses = 0

\* trades.py alone: MODE is the configured mode, main.py is not running
InitTrades ==
    /\ program = "trades"
    /\ MODE \in {"TEST", "LIVE"}
    /\ InitTradesVars
    /\ mt5_connected = FALSE
    /\ InitConnVars
    /\ TEST_MODE = FALSE
    /\ InitMainVars
    /\ InitAuxVars

\* main.py alone: TEST_MODE is the answer to the startup prompt
InitMain ==
    /\ program = "main"
    /\ TEST_MODE \in BOOLEAN
    /\ InitMainVars
    /\ MODE = "TEST"
    /\ InitTradesVars
    /\ mt5_connected = FALSE
    /\ InitConnVars
    /\ InitAuxVars

NextTrades ==
    \/ \E pair \in TPairs, direction \in Directions :
          trades_open_trade(pair, direction, TEntry)
    \/ \E current_prices \in TPriceMaps :
          trades_update_trades(current_prices)

SpecTrades == InitTrades /\ [][NextTrades]_vars

NextCheck ==
    \/ \E pair \in MPairs, signal \in Directions, atr \in MAtrs :
          CallOpenTrade(pair, signal, atr)
    \/ \E pair \in MPairs :
          \E current_price \in
                IF pair \in DOMAIN active_trades
                THEN LevelsOf(active_trades[pair]) ELSE {MEntry} :
             CallCheckTrades(pair, current_price)

SpecCheck == InitMain /\ [][NextCheck]_vars

NextBot ==
    \/ \E tick \in BotTicks, df \in BotFrames, raises \in BOOLEAN :
          run_bot_eval(tick, df, raises)
    \/ run_bot_begin_update
    \/ \E pair \in snapshot :
          \E price \in {None} \cup {Some(p) : p \in LevelsOf(active_trades[pair])},
             raises \in BOOLEAN :
             run_bot_update(pair, price, raises)
    \/ run_bot_stats
    \/ run_bot_recover

SpecBot == InitMain /\ [][NextBot]_vars

\* The handler of lines 922-925 is straight-line code (log, print_exc,
\* sleep(5)): once entered it runs to its end, so it is weakly fair.
SpecBotLive == SpecBot /\ WF_vars(run_bot_recover)

\* trades.py under its callers, and the dashboard shown on the list they
\* have produced.  show_dashboard changes nothing, so what may follow a
\* display is what may follow without it; a behaviour ends with the display.
NextDashboard ==
    \/ (call.fn = "none" /\ NextTrades)
    \/ (call.fn = "none" /\ CallShowDashboard)

SpecDashboard == InitTrades /\ [][NextDashboard]_vars

\* Either script, with its position store driven by its callers: trades.py
\* (open_trade, update_trades) or main.py (open_trade, check_trades).
InitLifecycle == InitTrades \/ InitMain

NextLifecycle ==
    \/ (program = "trades" /\ NextTrades)
    \/ (program = "main" /\ NextCheck)

SpecLifecycle == InitLifecycle /\ [][NextLifecycle]_vars

\* Either price-update loop: update_trades of trades.py under its callers, or
\* the cycle of run_bot.
NextTicks ==
    \/ (program = "trades" /\ NextTrades)
    \/ (program = "main" /\ NextBot)

SpecTicks == InitLifecycle /\ [][NextTicks]_vars

\* main.py as started by its entry point: the loop run_bot in the main
\* thread and pl_loop in the monitor thread, under every interleaving of
\* their steps.
NextThreads ==
    \/ NextBot
    \/ pl_loop_poll
    \/ pl_loop_sleep

\* line 985 starts the monitor before line 988 enters run_bot
InitThreads ==
    /\ program = "main"
    /\ TEST_MODE \in BOOLEAN
    /\ InitMainVars
    /\ MODE = "TEST"
    /\ InitTradesVars
    /\ mt5_connected = FALSE
    /\ InitConnVars
    /\ pl_pc = "poll"
    /\ call = [fn |-> "none"]

SpecThreads == InitThreads /\ [][NextThreads]_vars

\* One pass of run_bot's evaluation over PAIRS, with the positions it opens
\* advanced by check_trades at the prices of their own levels.  The pass
\* goes on while fewer than MaxPositions positions have been opened.
NextEvalCheck ==
    \/ /\ Cardinality(DOMAIN active_trades) + Len(closed_trades)
             < MaxPositions
       /\ \E tick \in BotTicks, df \in BotFrames, raises \in BOOLEAN :
             run_bot_eval(tick, df, raises)
    \/ \E pair \in DOMAIN active_trades :
          \E current_price \in LevelsOf(active_trades[pair]) :
             CallCheckTrades(pair, current_price)

SpecEvalCheck == InitMain /\ [][NextEvalCheck]_vars

\* Positions opened on a frame with a measurable range: calculate_atr
\* returns 0.00050 or 0.00100 (or nothing, as under MAtrs), in main.py for
\* open_trade and in backtest.py for the trade backtest_pair simulates.
VolAtrs == {Some(5 * PIP), Some(10 * PIP)}

CallBacktestLevels(sig, atr) ==
    /\ program = "backtest"
    /\ call' = [fn |-> "backtest_levels",
                args |-> [sig |-> sig, entry_price |-> MEntry, atr |-> atr],
                ret |-> backtest_levels(sig, MEntry, atr)]
    /\ UNCHANGED <<trades_vars, conn_vars, main_vars, pl_pc>>

InitVolatility ==
    /\ program \in {"backtest", "main"}
    /\ TEST_MODE \in BOOLEAN
    /\ InitMainVars
    /\ MODE = "TEST"
    /\ InitTradesVars
    /\ mt5_connected = FALSE
    /\ InitConnVars
    /\ InitAuxVars

NextVolatility ==
    \/ /\ program = "main"
       /\ \E pair \in MPairs, signal \in Directions,
             atr \in MAtrs \cup VolAtrs :
             CallOpenTrade(pair, signal, atr)
    \/ \E sig \in Directions, atr \in MAtrs \cup VolAtrs :
          CallBacktestLevels(sig, atr)

SpecVolatility == InitVolatility /\ [][NextVolatility]_vars

\* The functions without side effects, each called in the script that
\* defines it, on every input of the sets above.
InitCalls ==
    /\ program \in {"backtest", "signals", "main"}
    /\ TEST_MODE = FALSE
    /\ InitMainVars
    /\ MODE = "TEST"
    /\ InitTradesVars
    /\ mt5_connected = FALSE
    /\ InitConnVars
    /\ InitAuxVars

NextCalls ==
    \/ \E bar \in Bars : CallSignalOnBar(bar)
    \/ \E in_session \in BOOLEAN, df \in SignalsFrames :
          CallSignalsGenerateSignal(in_session, df)
    \/ \E rates \in MainRates : CallFetchDataSignal(rates)
    \/ \E trade \in PnlTrades :
          \E current_price \in LevelsOf(trade) :
             CallComputeLivePnl(trade, current_price)
    \/ \E pair \in ScalingPairs : CallPipScaling(pair)

SpecCalls == InitCalls /\ [][NextCalls]_vars

\* ensure_connection called again and again, on a link that is up or down
\* at the start and may drop at any moment.
InitConn ==
    /\ program = "mt5_connection"
    /\ TEST_MODE = FALSE
    /\ InitMainVars
    /\ MODE = "TEST"
    /\ open_trades = << >>
    /\ t_prices = << >>
    /\ InitAuxVars
    /\ mt5_connected \in BOOLEAN
    /\ InitConnVars

NextConn ==
    \/ \E retries \in 0..MaxRetries, delay \in Delays :
          ensure_connection_call(retries, delay)
    \/ ensure_connection_test
    \/ ensure_connection_loop
    \/ \E ok \in BOOLEAN : ensure_connection_attempt(ok)
    \/ ensure_connection_sleep
    \/ mt5_disconnect

SpecConn == InitConn /\ [][NextConn]_vars

\* Every step of the call is straight-line code between two calls that
\* return (mt5.version, mt5.initialize, time.sleep of a finite delay): a
\* step that is enabled is taken.  Nothing obliges a caller to call, or the
\* link to drop.
SpecConnLive ==
    /\ SpecConn
    /\ WF_vars(ensure_connection_test)
    /\ WF_vars(ensure_connection_loop)
    /\ WF_vars(\E ok \in BOOLEAN : ensure_connection_attempt(ok))
    /\ WF_vars(ensure_connection_sleep)



\* ===================================================================== claims
IsUpdateStep == m_op'.name = "update"
IsCheckStep == m_op'.name = "check_trades"
IsOpenStep == m_op'.name = "open_trade"

\* C1: in run_bot a pair that has an entry in active_trades is never opened
\* again while that entry is there: open_trade is called only for a pair
\* without an entry, and an entry that stays in the dict stays the same
\* position.
C1_OneOpenPerPair ==
    [][/\ IsOpenStep => m_op'.pair \notin DOMAIN active_trades
       /\ \A p \in DOMAIN active_trades \cap DOMAIN active_trades' :
             active_trades'[p] = active_trades[p]]_vars

\* run_bot evaluated a pair with a signal while its position was open
C1_Witness ==
    /\ m_op.name = "already_open"
    /\ m_op.pair \in DOMAIN active_trades

\* C2: open_trade for an instrument that already has a position leaves that
\* position as it was.
C2_OpenIsNoOp ==
    [][(IsOpenStep /\ m_op'.pair \in DOMAIN active_trades)
          => active_trades'[m_op'.pair] = active_trades[m_op'.pair]]_vars

\* C3: a target marked reached stays marked by every later price update:
\* TP1_hit/TP2_hit/TP3_hit across check_trades, partial_closed/moved_to_be
\* across update_trades.
C3_HitsMonotonic ==
    [][/\ IsCheckStep =>
             \A p \in DOMAIN active_trades \cap DOMAIN active_trades' :
                /\ active_trades[p].TP1_hit => active_trades'[p].TP1_hit
                /\ active_trades[p].TP2_hit => active_trades'[p].TP2_hit
                /\ active_trades[p].TP3_hit => active_trades'[p].TP3_hit
       /\ \A k \in 1..Len(open_trades) :
             /\ open_trades[k].partial_closed => open_trades'[k].partial_closed
             /\ open_trades[k].moved_to_be => open_trades'[k].moved_to_be]_vars

\* a trade whose first target is marked has just seen a price back on the
\* near side of that target
C3_Witness ==
    \E k \in 1..Len(open_trades) :
        /\ open_trades[k].partial_closed
        /\ open_trades[k].pair \in DOMAIN t_prices
        /\ ~trades_tp_crossed(open_trades[k], open_trades[k].tp1,
                              t_prices[open_trades[k].pair])

\* C4: once update_trades has closed a trade, no later call changes it.
C4_ClosedIsTerminal ==
    [][\A k \in 1..Len(open_trades) :
          open_trades[k].status # "OPEN"
              => open_trades'[k] = open_trades[k]]_vars

\* a trade closed by its stop-loss has just been offered a price beyond tp3
C4_Witness ==
    \E k \in 1..Len(open_trades) :
        /\ open_trades[k].status = "CLOSED_SL"
        /\ open_trades[k].pair \in DOMAIN t_prices
        /\ trades_tp_crossed(open_trades[k], open_trades[k].tp3,
                             t_prices[open_trades[k].pair])

\* C5: in trades.py moved_to_be implies partial_closed.
C5_BreakevenAfterPartial ==
    \A k \in 1..Len(open_trades) :
        open_trades[k].moved_to_be => open_trades[k].partial_closed

\* a trade that is still open has its stop at break-even
C5_Witness ==
    \E k \in 1..Len(open_trades) :
        /\ open_trades[k].moved_to_be
        /\ open_trades[k].status = "OPEN"

\* the lot left after the partial close of PARTIAL_CLOSE_RATIO
PartialLot == (LOT_SIZE * (100 - PARTIAL_CLOSE_RATIO_PCT)) \div 100

\* C6: an update that reaches the first target of an open trade puts it in
\* the PARTIAL state and cuts its lot by PARTIAL_CLOSE_RATIO.
C6_PartialClose ==
    [][\A k \in 1..Len(open_trades) :
          (/\ ~open_trades[k].partial_closed
           /\ open_trades'[k].partial_closed
           /\ open_trades'[k].status \notin {"CLOSED_SL", "CLOSED_TP3"})
          => /\ open_trades'[k].status = "PARTIAL"
             /\ open_trades'[k].lot = PartialLot
             /\ open_trades'[k].lot < open_trades[k].lot]_vars

\* C7: an update of run_bot whose price reaches target 1 only (neither the
\* final target nor the stop-loss) leaves the position in active_trades.
C7_Tp1KeepsPosition ==
    [][(/\ IsUpdateStep
        /\ m_op'.pair \in DOMAIN active_trades
        /\ LET trade == active_trades[m_op'.pair] IN
           /\ tp_crossed(trade, trade.TP1, m_op'.price)
           /\ ~tp_crossed(trade, trade.TP3, m_op'.price)
           /\ ~sl_crossed(trade, m_op'.price))
          => m_op'.pair \in DOMAIN active_trades']_vars

\* C8: after a check_trades whose price reaches the second target, the
\* stop-loss of the position equals its entry price.
C8_Tp2MovesStop ==
    [][(/\ IsCheckStep
        /\ m_op'.pair \in DOMAIN active_trades
        /\ m_op'.pair \in DOMAIN active_trades'
        /\ tp_crossed(active_trades[m_op'.pair],
                      active_trades[m_op'.pair].TP2, m_op'.price))
          => active_trades'[m_op'.pair].SL
                 = active_trades'[m_op'.pair].Entry]_vars

\* C9: check_trades closes a position exactly when the price crosses the
\* final target in the favourable direction or the stop-loss in the adverse
\* direction, in that same call.
C9_ClosedIffCrossed ==
    [][(IsCheckStep /\ m_op'.pair \in DOMAIN active_trades)
          => LET trade == active_trades[m_op'.pair] IN
             (m_op'.pair \notin DOMAIN active_trades')
                 <=> (\/ tp_crossed(trade, trade.TP3, m_op'.price)
                      \/ sl_crossed(trade, m_op'.price))]_vars

\* C10: a trade closed by update_trades carries the price of the closing
\* update as its close price, and a reason that tells stop-loss from final
\* target.
C10_CloseRecord ==
    [][\A k \in 1..Len(open_trades) :
          (open_trades[k].status = "OPEN" /\ open_trades'[k].status # "OPEN")
          => /\ open_trades'[k].status \in {"CLOSED_SL", "CLOSED_TP3"}
             /\ "close_price" \in DOMAIN open_trades'[k]
             /\ open_trades'[k].close_price
                    = t_prices'[open_trades[k].pair]]_vars

\* C11: in trades.py, once the stop-loss of an open trade has been moved to
\* the entry price, an update with a price strictly beyond the entry on the
\* favourable side and short of tp3 leaves the trade open, and an update
\* with a price on the adverse side of the entry closes it as CLOSED_SL
\* (BUY: above / below the entry; SELL: below / above).
C11_BreakevenStop ==
    [][\A k \in 1..Len(open_trades) :
          LET t == open_trades[k] IN
          (/\ t.status = "OPEN"
           /\ t.moved_to_be
           /\ t.pair \in DOMAIN t_prices')
          => LET p == t_prices'[t.pair] IN
             /\ (t.direction = "BUY" /\ p > t.entry /\ p < t.tp3)
                    => open_trades'[k].status = "OPEN"
             /\ (t.direction = "BUY" /\ p < t.entry)
                    => open_trades'[k].status = "CLOSED_SL"
             /\ (t.direction = "SELL" /\ p < t.entry /\ p > t.tp3)
                    => open_trades'[k].status = "OPEN"
             /\ (t.direction = "SELL" /\ p > t.entry)
                    => open_trades'[k].status = "CLOSED_SL"]_vars

\* a BUY trade at break-even was closed by a price between its first stop
\* and its entry
C11_Witness ==
    \E k \in 1..Len(open_trades) :
        /\ open_trades[k].direction = "BUY"
        /\ open_trades[k].moved_to_be
        /\ open_trades[k].status = "CLOSED_SL"
        /\ open_trades[k].pair \in DOMAIN t_prices
        /\ t_prices[open_trades[k].pair] < open_trades[k].entry
        /\ t_prices[open_trades[k].pair]
               > open_trades[k].entry - SL_VALUES_FOREX * PIP

\* C12: a check_trades whose price satisfies both the stop-loss test and a
\* target test of the position closes the position as a stop-loss and marks
\* no target in that call: the record appended to closed_trades has SL_hit
\* set and the target flags the position had before the call.
C12_StopLossFirst ==
    [][(/\ IsCheckStep
        /\ m_op'.pair \in DOMAIN active_trades
        /\ LET t == active_trades[m_op'.pair] IN
           /\ sl_crossed(t, m_op'.price)
           /\ \/ tp_crossed(t, t.TP1, m_op'.price)
              \/ tp_crossed(t, t.TP2, m_op'.price)
              \/ tp_crossed(t, t.TP3, m_op'.price))
          => /\ m_op'.pair \notin DOMAIN active_trades'
             /\ Len(closed_trades') = Len(closed_trades) + 1
             /\ LET t == active_trades[m_op'.pair]
                    c == closed_trades'[Len(closed_trades')]
                IN /\ c.SL_hit
                   /\ c.TP1_hit = t.TP1_hit
                   /\ c.TP2_hit = t.TP2_hit
                   /\ c.TP3_hit = t.TP3_hit]_vars

\* C13: in run_bot a failure while one instrument is evaluated (no tick, no
\* rates, or an exception) leaves the cycle running: the for loop goes on
\* to the next instrument, and so to the update loop of the same cycle.
C13_FailureIsolated ==
    [][(/\ pc = "eval"
        /\ m_op'.name \in {"skip_tick", "skip_data", "raised"})
          => /\ pc' = "eval"
             /\ idx' = idx + 1]_vars

\* C14: run_bot is not ended by an error raised inside a cycle: whenever the
\* exception handler has been entered, the loop later stands at the start of
\* a cycle, about to evaluate the first instrument.
C14_LoopRestarts == (pc = "error") ~> (pc = "eval" /\ idx = 1)

\* the handler has run and a new cycle starts
C14_Witness ==
    /\ m_op.name = "recover"
    /\ pc = "eval"
    /\ idx = 1

\* C15: a tick in which the price of an instrument is unavailable leaves the
\* position of that instrument as it was: update_trades does not touch a
\* trade whose pair has no price in current_prices, and run_bot changes
\* neither active_trades nor its closed lists when the tick of the pair is
\* None, in the evaluation and in the update loop.
C15_NoPriceNoChange ==
    [][/\ m_op'.name \in {"skip_tick", "update_no_price"}
             => /\ active_trades' = active_trades
                /\ cycle_closed' = cycle_closed
                /\ closed_trades' = closed_trades
       /\ \A k \in 1..Len(open_trades) :
             open_trades[k].pair \notin DOMAIN t_prices'
                 => open_trades'[k] = open_trades[k]]_vars

\* the update loop of run_bot found no tick for a pair with an open position
C15_Witness ==
    /\ m_op.name = "update_no_price"
    /\ m_op.pair \in DOMAIN active_trades

\* C16: when run_bot evaluates an instrument that has no open position, with
\* a positive price and bars that give a direction (EMA5 above EMA12 on the
\* last REQUIRED_SUSTAINED_CANDLES bars and RSI below MAX_RSI: BUY; EMA5
\* below EMA12 and RSI above MIN_RSI: SELL), active_trades holds a position
\* of that direction for the instrument, entered at that price, when the
\* evaluation of the instrument ends.
C16_SignalOpens ==
    [][(pc = "eval" /\ idx <= Len(PAIRS)
           /\ PAIRS[idx] \notin DOMAIN active_trades)
       => \A tick \in {t \in BotTicks : ~IsNone(t) /\ Val(t) > 0} :
          \A df \in {d \in BotFrames :
                        /\ d.len >= REQUIRED_SUSTAINED_CANDLES + 5
                        /\ \/ d.sustained_buy /\ d.osc < MAX_RSI
                           \/ d.sustained_sell /\ d.osc > MIN_RSI} :
             run_bot_eval(tick, df, FALSE)
             => /\ PAIRS[idx] \in DOMAIN active_trades'
                /\ active_trades'[PAIRS[idx]].Entry = Val(tick)
                /\ active_trades'[PAIRS[idx]].Signal =
                       (IF df.sustained_buy /\ df.osc < MAX_RSI
                        THEN "BUY" ELSE "SELL")]_vars

\* C17: open_trade records the position in the tracked set in both modes:
\* after main.open_trade the pair is in active_trades whether TEST_MODE is
\* set or not, and after trades.open_trade the new trade is the last
\* element of open_trades whether MODE is TEST or LIVE.
C17_TrackedInBothModes ==
    [][/\ IsOpenStep => m_op'.pair \in DOMAIN active_trades'
       /\ program = "trades"
             => \A pair \in TPairs, direction \in Directions :
                   trades_open_trade(pair, direction, TEntry)
                   => /\ Len(open_trades') = Len(open_trades) + 1
                      /\ open_trades'[Len(open_trades')] =
                             trades_new_trade(pair, direction, TEntry)]_vars

\* C18: every position open_trade creates follows the sign convention: for
\* BUY the three targets are strictly above the entry and the stop-loss
\* strictly below it, for SELL the targets strictly below and the stop-loss
\* strictly above (main.open_trade and trades.open_trade).
C18_SignConvention ==
    [][/\ IsOpenStep =>
             LET t == active_trades'[m_op'.pair] IN
             IF t.Signal = "BUY"
             THEN t.TP1 > t.Entry /\ t.TP2 > t.Entry /\ t.TP3 > t.Entry
                     /\ t.SL < t.Entry
             ELSE t.TP1 < t.Entry /\ t.TP2 < t.Entry /\ t.TP3 < t.Entry
                     /\ t.SL > t.Entry
       /\ \A k \in (Len(open_trades) + 1)..Len(open_trades') :
             LET t == open_trades'[k] IN
             IF t.direction = "BUY"
             THEN t.tp1 > t.entry /\ t.tp2 > t.entry /\ t.tp3 > t.entry
                     /\ t.sl < t.entry
             ELSE t.tp1 < t.entry /\ t.tp2 < t.entry /\ t.tp3 < t.entry
                     /\ t.sl > t.entry]_vars

\* C19: every position in active_trades that run_bot opened has its targets
\* ordered by distance from the entry: Entry < TP1 < TP2 < TP3 for BUY,
\* Entry > TP1 > TP2 > TP3 for SELL.
C19_TargetsOrdered ==
    \A p \in DOMAIN active_trades :
        LET t == active_trades[p] IN
        IF t.Signal = "BUY"
        THEN t.Entry < t.TP1 /\ t.TP1 < t.TP2 /\ t.TP2 < t.TP3
        ELSE t.Entry > t.TP1 /\ t.TP1 > t.TP2 /\ t.TP2 > t.TP3

\* C20: an open_trade whose volatility measure is zero or unavailable (atr
\* 0 or None) stores the position the static table gives, the same record
\* as for atr None, whose targets and stop-loss differ from the entry.
C20_ZeroAtrFallsBack ==
    [][\A pair \in MPairs, signal \in Directions, atr \in {None, Some(0)} :
          CallOpenTrade(pair, signal, atr)
          => LET t == active_trades'[pair] IN
             /\ t = open_trade_record(pair, signal, MEntry, None,
                                      ModeOf(TEST_MODE),
                                      None, None, None, None)
             /\ t.TP1 # t.Entry
             /\ t.TP2 # t.Entry
             /\ t.TP3 # t.Entry
             /\ t.SL # t.Entry]_vars

\* C21: the static distances of a position are multiples of the pip unit of
\* its instrument (0.01 for a JPY pair, 0.1 for gold, 0.0001 otherwise), in
\* main.open_trade and in trades.open_trade: every target of a trade in
\* open_trades lies TP_VALUES pips of its own pair from the entry, and every
\* main.open_trade without ATR stores its distances in units of the pair.
C21_PipUnitScaling ==
    [][/\ \A k \in 1..Len(open_trades') :
             LET t == open_trades'[k]
                 unit == open_trade_pip_unit(t.pair)
                 sign == IF t.direction = "BUY" THEN 1 ELSE -1
             IN /\ t.tp1 = t.entry + sign * TP_VALUES_FOREX[1] * unit
                /\ t.tp2 = t.entry + sign * TP_VALUES_FOREX[2] * unit
                /\ t.tp3 = t.entry + sign * TP_VALUES_FOREX[3] * unit
       /\ \A pair \in MPairs, signal \in Directions :
             CallOpenTrade(pair, signal, None)
             => LET t == active_trades'[pair]
                    unit == IF ContainsJPY(pair) THEN 100 * PIP
                            ELSE IF IsGold(pair) THEN 1000 * PIP ELSE PIP
                    sign == IF signal = "BUY" THEN 1 ELSE -1
                IN /\ t.TP1 = t.Entry + sign * 40 * unit
                   /\ t.TP2 = t.Entry + sign * 80 * unit
                   /\ t.TP3 = t.Entry + sign * 120 * unit
                   /\ t.SL = t.Entry - sign * 50 * unit]_vars

\* C22: open_trade for an instrument without an entry in PAIR_SETTINGS
\* stores a position, and its distances are those of the default set the
\* table lookup PAIR_SETTINGS.get(pair, DEFAULT_SETTINGS) gives, in pips of
\* the instrument.
C22_OneDefault ==
    [][\A pair \in MPairs \ DOMAIN PAIR_SETTINGS, signal \in Directions :
          CallOpenTrade(pair, signal, None)
          => /\ pair \in DOMAIN active_trades'
             /\ LET t == active_trades'[pair]
                    unit == open_trade_pip_unit(pair)
                    sign == IF signal = "BUY" THEN 1 ELSE -1
                IN /\ t.TP1 = t.Entry + sign * settings(pair).TP1 * unit
                   /\ t.TP2 = t.Entry + sign * settings(pair).TP2 * unit
                   /\ t.TP3 = t.Entry + sign * settings(pair).TP3 * unit
                   /\ t.SL = t.Entry - sign * settings(pair).SL * unit]_vars

\* C23: every classifier returns BUY, SELL or its no-action value, BUY exactly
\* when its BUY condition holds and SELL exactly when its SELL condition
\* holds, and no input satisfies both conditions, whatever the oscillator.
C23_Exclusive ==
    /\ call.fn = "signal_on_bar"
       => LET row == compute_indicators(call.args)
              buy == ~signal_on_bar_isna(row) /\ signal_on_bar_buy(row)
              sell == ~signal_on_bar_isna(row) /\ signal_on_bar_sell(row)
          IN /\ call.ret \in {"BUY", "SELL", "HOLD"}
             /\ ~(buy /\ sell)
             /\ (call.ret = "BUY") = buy
             /\ (call.ret = "SELL") = sell
    /\ call.fn = "signals.generate_signal"
       => LET df == call.args.df
              usable == /\ call.args.in_session /\ ~IsNone(df)
                        /\ Val(df).len >= signals_min_len
              rsi == calculate_rsi(Val(df).len, Val(df).gain, Val(df).loss)
              buy == usable /\ signals_buy(Val(df).ema_fast,
                                            Val(df).ema_slow, rsi)
              sell == usable /\ signals_sell(Val(df).ema_fast,
                                              Val(df).ema_slow, rsi)
          IN /\ call.ret \in {Some("BUY"), Some("SELL"), None}
             /\ ~(buy /\ sell)
             /\ (call.ret = Some("BUY")) = buy
             /\ (call.ret = Some("SELL")) = sell
    /\ call.fn = "main.generate_signal"
       => LET df == fetch_data(call.args)
              usable == /\ ~IsNone(df)
                        /\ Val(df).len >= REQUIRED_SUSTAINED_CANDLES + 5
                        /\ ~IsNone(Val(df).rsi)
              buy == /\ usable /\ main_sustained_buy(call.args.tail)
                     /\ Val(Val(df).rsi) < MAX_RSI
              sell == /\ usable /\ main_sustained_sell(call.args.tail)
                      /\ Val(Val(df).rsi) > MIN_RSI
          IN /\ call.ret \in {Some("BUY"), Some("SELL"), None}
             /\ ~(buy /\ sell)
             /\ (call.ret = Some("BUY")) = buy
             /\ (call.ret = Some("SELL")) = sell

\* the oscillator lies in both bands (45..55) and the bar is a BUY
C23_Witness ==
    /\ call.fn = "signal_on_bar"
    /\ call.ret = "BUY"
    /\ rsi_ok_long(compute_indicators(call.args))
    /\ rsi_ok_short(compute_indicators(call.args))

\* C24: a classifier returns BUY only if the fast average is strictly above
\* the slow one, the momentum confirms and the oscillator lies in 45..65,
\* and SELL only if the fast average is strictly below, the momentum
\* confirms and the oscillator lies in 35..55; otherwise it returns its
\* no-action value.  main.generate_signal has no momentum input, so for it
\* the trend gate and the band are stated.
C24_ThreeGates ==
    /\ call.fn = "signal_on_bar"
       => LET row == compute_indicators(call.args)
          IN /\ call.ret = "BUY"
                => /\ call.args.sma_f > call.args.sma_s
                   /\ call.args.macd > call.args.macd_signal
                   /\ Val(row.RSI) \in 45..65
             /\ call.ret = "SELL"
                => /\ call.args.sma_f < call.args.sma_s
                   /\ call.args.macd < call.args.macd_signal
                   /\ Val(row.RSI) \in 35..55
    /\ call.fn = "main.generate_signal"
       => LET last == call.args.tail[Len(call.args.tail)]
              rsi == fetch_data_rsi(call.args.len, call.args.up,
                                    call.args.down)
          IN /\ call.ret = Some("BUY")
                => last.EMA5 > last.EMA12 /\ Val(rsi) \in 45..65
             /\ call.ret = Some("SELL")
                => last.EMA5 < last.EMA12 /\ Val(rsi) \in 35..55

\* C25: a series shorter than the larger of the slow-average period and the
\* oscillator period gives no directional signal: fewer than 20 bars in
\* backtest.py (SMA 20, RSI 14), fewer than 14 rows in signals.py (EMA 6,
\* RSI 14) and in main.py (EMA 12, RSI 14) yield HOLD or None.
C25_ShortSeries ==
    /\ (call.fn = "signal_on_bar" /\ call.args.n < sma_slow)
       => call.ret = "HOLD"
    /\ (call.fn = "signals.generate_signal"
            /\ ~IsNone(call.args.df) /\ Val(call.args.df).len < RSI_PERIOD)
       => call.ret = None
    /\ (call.fn = "main.generate_signal" /\ call.args.len < 14)
       => call.ret = None

\* a frame of main.py that passes the length test of generate_signal, trends
\* upward and is still shorter than the oscillator window
C25_Witness ==
    /\ call.fn = "main.generate_signal"
    /\ call.args.Close
    /\ call.args.len >= REQUIRED_SUSTAINED_CANDLES + 5
    /\ call.args.len < 14
    /\ main_sustained_buy(call.args.tail)
    /\ call.ret = None

\* C26: where the average fall over the oscillator window is zero and the
\* window is full, the oscillator computed is a number of at least 95, not
\* NaN: in compute_indicators of backtest.py, in calculate_rsi of
\* signals.py and in fetch_data of main.py.
C26_SaturatedOscillator ==
    /\ (call.fn = "signal_on_bar"
            /\ call.args.n >= 2 /\ call.args.avg_loss = 0)
       => ~IsNone(call.ind.RSI) /\ Val(call.ind.RSI) >= 95
    /\ (call.fn = "signals.generate_signal"
            /\ call.args.in_session /\ ~IsNone(call.args.df)
            /\ Val(call.args.df).len >= RSI_PERIOD
            /\ Val(call.args.df).loss = 0)
       => ~IsNone(call.ind) /\ Val(call.ind) >= 95
    /\ (call.fn = "main.generate_signal"
            /\ call.args.Close /\ call.args.len >= 15
            /\ call.args.down = 0)
       => ~IsNone(Val(call.ind).rsi) /\ Val(Val(call.ind).rsi) >= 95

\* C27: a position that leaves active_trades is recorded in a closed history
\* (the list main.closed_trades, or the list closed_trades of run_bot), and
\* whatever the history holds it keeps in every later step.
C27_History ==
    {closed_trades[k].Pair : k \in 1..Len(closed_trades)}
        \cup {cycle_closed[k].pair : k \in 1..Len(cycle_closed)}

C27_HistoryNext ==
    {closed_trades'[k].Pair : k \in 1..Len(closed_trades')}
        \cup {cycle_closed'[k].pair : k \in 1..Len(cycle_closed')}

C27_ClosedRetained ==
    [][/\ (DOMAIN active_trades \ DOMAIN active_trades') \subseteq C27_HistoryNext
       /\ C27_History \subseteq C27_HistoryNext
       /\ Len(closed_trades') >= Len(closed_trades)
       /\ SubSeq(closed_trades', 1, Len(closed_trades)) = closed_trades]_vars

\* C28: a step of the monitor thread pl_loop leaves active_trades (and the
\* closed list) as it was, under every interleaving with run_bot; every
\* change of active_trades is a step of run_bot.
C28_SingleWriter ==
    [][/\ (pl_pc' # pl_pc) => UNCHANGED <<active_trades, closed_trades>>
       /\ (active_trades' # active_trades)
          => pl_pc' = pl_pc /\ m_op'.name \in {"open_trade", "update"}]_vars

\* the monitor has completed a pass while the update loop of run_bot is at
\* work on an open position
C28_Witness ==
    /\ pl_pc = "sleep"
    /\ pc = "update"
    /\ \E pair \in snapshot :
          pair \in DOMAIN active_trades /\ ~active_trades[pair].TP1_hit

C30_FloatingPnl ==
    call.fn = "compute_live_pnl"
    => LET t == call.args.trade
           diff == IF t.Signal = "BUY" THEN call.args.current_price - t.Entry
                   ELSE t.Entry - call.args.current_price
           factor == IF ContainsJPY(t.Pair) THEN 100
                     ELSE IF IsGold(t.Pair) THEN 10 ELSE 10000
           pips100 == ((diff \div 100) * factor) \div 10000
       IN /\ call.trade_after = t
          /\ call.ret * 100 = pips100 * LOT_SIZE

\* C31: a position opened by run_bot and advanced by check_trades has its
\* reached targets as a prefix of TP1, TP2, TP3, while it is active and in
\* the record of its closure: TP3_hit implies TP2_hit, TP2_hit implies
\* TP1_hit.
C31_HitPrefix ==
    /\ \A pair \in DOMAIN active_trades :
          /\ active_trades[pair].TP3_hit => active_trades[pair].TP2_hit
          /\ active_trades[pair].TP2_hit => active_trades[pair].TP1_hit
    /\ \A k \in 1..Len(closed_trades) :
          /\ closed_trades[k].TP3_hit => closed_trades[k].TP2_hit
          /\ closed_trades[k].TP2_hit => closed_trades[k].TP1_hit

\* C32: no position of active_trades has TP3_hit or SL_hit set: the call of
\* check_trades that sets a terminal flag also closes and removes the
\* position, whether or not an error is raised and caught inside the call.
C32_NoTerminalActive ==
    \A pair \in DOMAIN active_trades :
        ~active_trades[pair].TP3_hit /\ ~active_trades[pair].SL_hit

\* C33: for one instrument name every place gives the same scaling: the pip
\* units of detect_pip_unit and of open_trade are equal, the pip factors of
\* detect_pip_unit, compute_live_pnl, the dashboard and the monitor are
\* equal, and pip unit times pip factor is 1 (10^8 in units of 1e-8).
C33_OneScaling ==
    call.fn = "pip_scaling"
    => LET r == call.ret IN
       /\ r.detect_pip_unit.pip_unit = r.open_trade
       /\ r.detect_pip_unit.pip_factor = r.compute_live_pnl
       /\ r.compute_live_pnl = r.display_dashboard
       /\ r.display_dashboard = r.pl_loop
       /\ (r.open_trade \div PIP) * r.compute_live_pnl = 10000

\* C34: total_trades equals wins plus losses, and every position run_bot
\* has opened is accounted for exactly once: it is active, or closed and
\* waiting in the list of the running update loop for the statistics of this
\* cycle, or counted in total_trades.  The number of positions so accounted
\* grows by one when a position is opened and otherwise stays as it is.
C34_Accounted ==
    Cardinality(DOMAIN active_trades) + total_trades
        + (IF pc = "update" \/ (pc = "error" /\ snapshot # {})
           THEN Len(cycle_closed) ELSE 0)

C34_AccountedNext ==
    Cardinality(DOMAIN active_trades') + total_trades'
        + (IF pc' = "update" \/ (pc' = "error" /\ snapshot' # {})
           THEN Len(cycle_closed') ELSE 0)

C34_StatsConsistent ==
    [][/\ total_trades' = wins' + losses'
       /\ C34_AccountedNext
            = C34_Accounted + (IF m_op'.name = "open_trade" THEN 1 ELSE 0)]_vars

C36_DashboardAgrees ==
    [][CallShowDashboard
          => /\ call'.ret.closed
                  = Cardinality({k \in 1..Len(open_trades) :
                                    open_trades[k].status # "OPEN"})
             /\ call'.ret.active
                  = Cardinality({k \in 1..Len(open_trades) :
                                    open_trades[k].status = "OPEN"})]_vars

\* C37: a call of update_trades leaves the list as long as it was, and every
\* trade whose pair has no price in the supplied map (the trades of all pairs
\* other than the one priced) keeps every field.  t_prices' is the map the
\* call was given.
C37_OtherPairsUntouched ==
    [][trades_update_trades(t_prices')
          => /\ Len(open_trades') = Len(open_trades)
             /\ \A k \in 1..Len(open_trades) :
                   open_trades[k].pair \notin DOMAIN t_prices'
                      => open_trades'[k] = open_trades[k]]_vars

\* an update with a price for one pair has changed a trade of that pair and
\* the trade of the other pair is still as open_trade made it
C37_Witness ==
    /\ Len(open_trades) = 2
    /\ DOMAIN t_prices = {open_trades[1].pair}
    /\ open_trades[2].pair # open_trades[1].pair
    /\ open_trades[1] # trades_new_trade(open_trades[1].pair,
                                         open_trades[1].direction,
                                         open_trades[1].entry)
    /\ open_trades[2] = trades_new_trade(open_trades[2].pair,
                                         open_trades[2].direction,
                                         open_trades[2].entry)

\* what holds of a call of ensure_connection that has returned
C38_ReturnedRight ==
    ec_pc = "returned" =>
        /\ Val(ec_alive) => (ec_ret = Some(TRUE) /\ ec_attempts = << >>)
        /\ (~Val(ec_alive) /\ ec_ret = Some(TRUE))
              => /\ Len(ec_attempts) >= 1
                 /\ ec_attempts[Len(ec_attempts)]
                 /\ \A k \in 1..(Len(ec_attempts) - 1) : ~ec_attempts[k]
        /\ ec_ret = Some(FALSE)
              <=> /\ ~Val(ec_alive)
                  /\ Len(ec_attempts) = ec_retries
                  /\ \A k \in 1..Len(ec_attempts) : ~ec_attempts[k]

\* C38: every call of ensure_connection returns, and never makes more than
\* `retries` attempts; it returns True without an attempt when the link was
\* alive, True at its first successful attempt (the last one it makes), and
\* False exactly when it made `retries` attempts and all of them failed.
C38_EnsureConnectionTerminates ==
    /\ [](Len(ec_attempts) <= ec_retries)
    /\ []C38_ReturnedRight
    /\ (ec_pc = "test") ~> (ec_pc = "returned")

\* a call on a dead link has returned False after using up two or more
\* attempts
C38_Witness ==
    /\ ec_pc = "returned"
    /\ ec_ret = Some(FALSE)
    /\ ec_retries >= 2
    /\ Len(ec_attempts) = ec_retries

====
